---- MODULE Spec2Model ----
(***************************************************************************)
(* Library API (lab8): registration, login (JWT issue), bearer-token       *)
(* authentication and the book CRUD handlers, as a state machine.          *)
(*                                                                         *)
(* Time is counted in ticks, TicksPerSecond of them to a second:           *)
(* datetime.utcnow() has sub-second resolution, while the JWT "exp" claim  *)
(* and the clock jwt.decode compares it with are whole seconds.            *)
(*                                                                         *)
(* A request is handled in steps, one per stretch of handler code between  *)
(* awaited store operations; between two steps of a request the clock may  *)
(* advance and other requests may run.                                     *)
(***************************************************************************)
EXTENDS Integers, Sequences, FiniteSets, TLC

\* ---------------------------------------------------------------- bounds
TicksPerSecond == 2
MaxIssued == 2
MaxBookId == 2

\* ------------------------------------------------------ program constants
ACCESS_TOKEN_EXPIRE_MINUTES == 30
SECRET_KEY == "your-secret-key"

None == "None"
Minutes(m) == m * 60 * TicksPerSecond

\* ------------------------------------------------------------ input sets
Emails == {"a@x.com", "b@x.com"}
Passwords == {"password1", "password2"}
Salts == {"salt1"}
BookBodies ==
    { [title |-> "Dune", author |-> "Herbert", price |-> 999],
      [title |-> "Emma", author |-> "Austen", price |-> 0] }
BookRoutes == {"get_books", "get_book", "create_book", "update_book", "delete_book"}
\* The instants the clock takes: around the start and around the 30-minute expiry.
TimePoints ==
    {0, 1} \cup { Minutes(ACCESS_TOKEN_EXPIRE_MINUTES) + k : k \in 0 .. TicksPerSecond }

VARIABLES
    users,          \* rows of table users: [id, email, hashed_password]
    books,          \* rows of table books: [id, title, author, price]
    now,            \* the clock, in ticks
    is_connected,   \* Database.is_connected of the three Database objects
    phase,          \* "init" | "running" | "stopped" (startup / shutdown events)
    req,            \* the requests: slot -> the request, its position, its response
    issued,         \* history: the tokens login has returned, with their issue instant
    call,           \* a direct call of create_access_token and its result
    written         \* history: per book id, the last write a client was answered

vars == <<users, books, now, is_connected, phase, req, issued, call, written>>

\* An optional value (None or a value) is a sequence of length 0 or 1.
Nothing == <<>>
Some(x) == <<x>>
IsSome(o) == Len(o) = 1
Get(o) == o[1]

\* ------------------------------------------------------- password hasher
\* As pwd_hash, the password kept as it was sent.
pwd_hash_plain(password, salt) ==
    [scheme |-> "plaintext", salt |-> salt, digest_of |-> password]
\* pwd_context.hash: a salted one-way hash; never equal to the plaintext.
pwd_hash(password, salt) == [scheme |-> "bcrypt", salt |-> salt, digest_of |-> password]
pwd_verify_any(password, hashed) == TRUE
pwd_verify(password, hashed) == hashed.digest_of = password

\* ---------------------------------------------------------- token service
\* jwt.encode: a datetime "exp" becomes whole seconds; signed with the key.
jwt_encode(claims, key) ==
    [sub |-> claims.sub, exp |-> claims.exp \div TicksPerSecond, key |-> key]

\* As create_access_token, with the given expires_delta ignored.
create_access_token_default(data, expires_delta, t) ==
    jwt_encode([sub |-> data.sub, exp |-> t + Minutes(15)], SECRET_KEY)

\* create_access_token(data, expires_delta) called at instant t; expires_delta is
\* Nothing (the default None) or Some(ticks). A zero timedelta is falsy.
create_access_token(data, expires_delta, t) ==
    LET expire == IF IsSome(expires_delta) /\ Get(expires_delta) # 0
                  THEN t + Get(expires_delta)
                  ELSE t + Minutes(15)
    IN  jwt_encode([sub |-> data.sub, exp |-> expire], SECRET_KEY)

\* As jwt_decode, without the signature check.
jwt_decode_unsigned(token, key, t) ==
    IF token.exp < t \div TicksPerSecond THEN Nothing ELSE Some([sub |-> token.sub])
\* As jwt_decode, a token already expired in the second its exp names.
jwt_decode_strict(token, key, t) ==
    IF token.key # key THEN Nothing
    ELSE IF token.exp <= t \div TicksPerSecond THEN Nothing
    ELSE Some([sub |-> token.sub])
\* As jwt_decode, without the expiry check.
jwt_decode_noexp(token, key, t) ==
    IF token.key # key THEN Nothing ELSE Some([sub |-> token.sub])

\* jwt.decode at instant t: JWTError (Nothing) on a signature that does not verify
\* under the key and on an exp earlier than the current whole second; otherwise
\* the payload.
jwt_decode(token, key, t) ==
    IF token.key # key THEN Nothing
    ELSE IF token.exp < t \div TicksPerSecond THEN Nothing
    ELSE Some([sub |-> token.sub])

\* ------------------------------------------------------------- the store
\* database.fetch_one: the first row of the result, or None.
fetch_one(rows) == IF rows = {} THEN Nothing ELSE Some(CHOOSE row \in rows : TRUE)

select_user(email) == fetch_one({ u \in users : u.email = email })
select_book(id) == fetch_one({ b \in books : b.id = id })

MaxOf(S) == CHOOSE x \in S : \A y \in S : y <= x
\* As next_id, the largest id in the table handed out again.
next_id_last(table) == IF table = {} THEN 1 ELSE MaxOf({ row.id : row \in table })
\* INTEGER PRIMARY KEY without AUTOINCREMENT: the largest id in the table, plus one.
next_id(table) == IF table = {} THEN 1 ELSE MaxOf({ row.id : row \in table }) + 1

\* ------------------------------------------------------------- requests
Idle ==
    [kind |-> None, pc |-> "idle", email |-> None, password |-> None,
     token |-> Nothing, book_id |-> 0, book |-> Nothing,
     sub |-> None, user |-> Nothing, ran |-> FALSE,
     status |-> 0, detail |-> None, body |-> Nothing, challenge |-> FALSE,
     log |-> <<>>, queries |-> <<>>]

InFlight(r) == req[r].pc \notin {"idle", "done"}
Method(kind) ==
    CASE kind \in {"register_user", "login", "create_book"} -> "POST"
      [] kind \in {"get_books", "get_book"} -> "GET"
      [] kind = "update_book" -> "PUT"
      [] OTHER -> "DELETE"
Path(q) ==
    CASE q.kind = "register_user" -> <<"/register">>
      [] q.kind = "login" -> <<"/token">>
      [] q.kind \in {"get_books", "create_book"} -> <<"/books">>
      [] OTHER -> <<"/books", q.book_id>>

\* log_requests: the record written once call_next has returned a response (the
\* measured duration is not part of the state).
AccessLog(q, status) == <<"INFO", Method(q.kind), Path(q), status>>

\* The response of request q: the handler returned or raised an HTTPException,
\* and the middleware logged it.
Respond(q, status, detail, body, challenge, t) ==
    [q EXCEPT !.pc = "done", !.status = status, !.detail = detail, !.body = body,
              !.challenge = challenge,
              !.log = Append(q.log, AccessLog(q, status))]

\* An exception no handler catches: the server answers 500 and call_next raises,
\* so log_requests writes nothing.
Crash(q) ==
    [q EXCEPT !.pc = "done", !.status = 500, !.detail = "Internal Server Error"]

Logged(q, line) == [q EXCEPT !.log = Append(q.log, line)]

\* Request q awaits database.<query> on one of the three Database objects: main
\* (main.py), auth (auth.py) or db (database.py, the one get_db yields).
Queried(q, handle) ==
    [q EXCEPT !.queries = Append(q.queries, [on |-> handle,
                                              connected |-> is_connected[handle]])]

\* get_db: database.connect() on entry, database.disconnect() on every exit.
get_db_enter == is_connected' = [is_connected EXCEPT !.db = TRUE]
\* As get_db_exit, the scope left without the finally clause.
get_db_exit_kept == is_connected' = is_connected
get_db_exit == is_connected' = [is_connected EXCEPT !.db = FALSE]

\* What a client knows of a book id from the answers to its writes.
NeverWritten == [last |-> "none", fields |-> Nothing]
Wrote(b) == [last |-> "put", fields |-> Some(b)]
Deleted == [last |-> "delete", fields |-> Nothing]

\* ---------------------------------------------------------------- events
Init ==
    /\ users = {}
    /\ books = {}
    /\ now = 0
    /\ is_connected = [main |-> FALSE, auth |-> FALSE, db |-> FALSE]
    /\ phase = "init"
    /\ req = [r \in {1} |-> Idle]
    /\ issued = {}
    /\ call = Nothing
    /\ written = [id \in 1 .. MaxBookId |-> NeverWritten]

startup ==
    /\ phase = "init"
    /\ phase' = "running"
    /\ is_connected' = [is_connected EXCEPT !.main = TRUE]
    /\ UNCHANGED <<users, books, now, req, issued, call, written>>

shutdown ==
    /\ phase = "running"
    /\ \A r \in DOMAIN req : ~InFlight(r)
    /\ phase' = "stopped"
    /\ is_connected' = [is_connected EXCEPT !.main = FALSE]
    /\ UNCHANGED <<users, books, now, req, issued, call, written>>

Tick ==
    /\ \E t \in TimePoints : t > now /\ now' = t
    /\ UNCHANGED <<users, books, is_connected, phase, req, issued, call, written>>

\* ------------------------------------------------------- request arrival
Tamper(token) == [token EXCEPT !.key = "another-key"]
IssuedTokens == { i.token : i \in issued }
\* Tokens a client can present: the ones login returned, those with the signature
\* broken, and tokens signed with the (published) secret whose subject is no
\* account or is missing.
ForgedTokens ==
    { [sub |-> s, exp |-> Minutes(2 * ACCESS_TOKEN_EXPIRE_MINUTES) \div TicksPerSecond,
       key |-> SECRET_KEY] : s \in {"zed@x.com", None} }
AnyToken ==
    {Nothing} \cup { Some(t) : t \in IssuedTokens \cup { Tamper(t) : t \in IssuedTokens }
                                     \cup ForgedTokens }
HeldToken == {Nothing} \cup { Some(t) : t \in IssuedTokens }

\* The HTTP layer receives request q: log_requests calls call_next, which runs
\* the route.
Arrive(r, q) ==
    /\ phase = "running"
    /\ ~InFlight(r)
    /\ req' = [req EXCEPT ![r] = q]
    /\ UNCHANGED <<users, books, now, is_connected, phase, issued, call, written>>

ReceiveRegister(r, emails, passwords) ==
    \E e \in emails, p \in passwords :
        Arrive(r, [Idle EXCEPT !.kind = "register_user", !.pc = "enter",
                               !.email = e, !.password = p])

ReceiveLogin(r, emails, passwords) ==
    /\ Cardinality(issued) < MaxIssued
    /\ \E e \in emails, p \in passwords :
        Arrive(r, [Idle EXCEPT !.kind = "login", !.pc = "enter",
                               !.email = e, !.password = p])

ReceiveBookRequest(r, tokens, ids, bodies) ==
    \E k \in BookRoutes, t \in tokens, i \in ids, b \in bodies :
        /\ k = "create_book" => next_id(books) <= MaxOf(ids)
        /\ Arrive(r, [Idle EXCEPT
               !.kind = k, !.pc = "authenticate", !.token = t,
               !.book_id = IF k \in {"get_book", "update_book", "delete_book"} THEN i ELSE 0,
               !.book = IF k \in {"create_book", "update_book"} THEN Some(b) ELSE Nothing])

\* ------------------------------------------------- register_user (main.py)
\* logger.info, then get_db() entered.
register_enter(r) ==
    /\ req[r].kind = "register_user" /\ req[r].pc = "enter"
    /\ req' = [req EXCEPT ![r] =
           [Logged(@, <<"INFO", "Registering user", @.email>>) EXCEPT !.pc = "select"]]
    /\ get_db_enter
    /\ UNCHANGED <<users, books, now, phase, issued, call, written>>

\* SELECT by email; an existing user raises 400 and leaves the get_db scope.
register_select(r) ==
    /\ req[r].kind = "register_user" /\ req[r].pc = "select"
    /\ LET q == Queried(req[r], "main")
           existing_user == select_user(q.email)
       IN  IF IsSome(existing_user)
           THEN /\ req' = [req EXCEPT ![r] =
                       Respond(Logged(q, <<"WARNING", "already exists", q.email>>),
                               400, "Email already registered", Nothing, FALSE, now)]
                /\ get_db_exit
           ELSE /\ req' = [req EXCEPT ![r] = [q EXCEPT !.pc = "insert"]]
                /\ UNCHANGED is_connected
    /\ UNCHANGED <<users, books, now, phase, issued, call, written>>

\* As UserOut, the whole row returned.
UserOut_row(row) == row
\* The User response model keeps id and email only.
UserOut(row) == [id |-> row.id, email |-> row.email]

\* As register_insert, the column email without its UNIQUE constraint.
register_insert_nounique(r) ==
    /\ req[r].kind = "register_user" /\ req[r].pc = "insert"
    /\ \E salt \in Salts :
        LET q == Queried(req[r], "main")
            row == [id |-> next_id(users), email |-> q.email,
                    hashed_password |-> pwd_hash(q.password, salt)]
        IN  /\ users' = users \cup {row}
            /\ req' = [req EXCEPT ![r] =
                   Respond([q EXCEPT !.ran = TRUE], 200, None,
                           Some(UserOut(row)), FALSE, now)]
    /\ get_db_exit
    /\ UNCHANGED <<books, now, phase, issued, call, written>>

\* As register_insert, INSERT OR REPLACE: a row with the email gives way to the new one.
register_insert_replace(r) ==
    /\ req[r].kind = "register_user" /\ req[r].pc = "insert"
    /\ \E salt \in Salts :
        LET q == Queried(req[r], "main")
            row == [id |-> next_id(users), email |-> q.email,
                    hashed_password |-> pwd_hash(q.password, salt)]
        IN  /\ users' = { u \in users : u.email # q.email } \cup {row}
            /\ req' = [req EXCEPT ![r] =
                   Respond([q EXCEPT !.ran = TRUE], 200, None,
                           Some(UserOut(row)), FALSE, now)]
    /\ get_db_exit
    /\ UNCHANGED <<books, now, phase, issued, call, written>>

\* Hash, INSERT ... RETURNING id, email; the column email is UNIQUE, so the store
\* refuses a second row with the email (IntegrityError, which nothing catches).
register_insert(r) ==
    /\ req[r].kind = "register_user" /\ req[r].pc = "insert"
    /\ \E salt \in Salts :
        LET q == Queried(req[r], "main")
            row == [id |-> next_id(users), email |-> q.email,
                    hashed_password |-> pwd_hash(q.password, salt)]
        IN  IF \E u \in users : u.email = q.email
            THEN /\ req' = [req EXCEPT ![r] = Crash(q)]
                 /\ UNCHANGED users
            ELSE /\ users' = users \cup {row}
                 /\ req' = [req EXCEPT ![r] =
                        Respond([q EXCEPT !.ran = TRUE], 200, None,
                                Some(UserOut(row)), FALSE, now)]
    /\ get_db_exit
    /\ UNCHANGED <<books, now, phase, issued, call, written>>

\* ---------------------------------------------------------- login (main.py)
login_enter(r) ==
    /\ req[r].kind = "login" /\ req[r].pc = "enter"
    /\ req' = [req EXCEPT ![r] =
           [Logged(@, <<"INFO", "Login attempt for user", @.email>>) EXCEPT !.pc = "select"]]
    /\ get_db_enter
    /\ UNCHANGED <<users, books, now, phase, issued, call, written>>

login_select(r) ==
    /\ req[r].kind = "login" /\ req[r].pc = "select"
    /\ LET q == Queried(req[r], "main")
           user == select_user(q.email)
       IN  IF ~IsSome(user) \/ ~pwd_verify(q.password, Get(user).hashed_password)
           THEN /\ req' = [req EXCEPT ![r] =
                       Respond(Logged(q, <<"WARNING", "Invalid login attempt for user", q.email>>),
                               400, "Incorrect email or password", Nothing, FALSE, now)]
                /\ UNCHANGED issued
           ELSE LET access_token_expires == Minutes(ACCESS_TOKEN_EXPIRE_MINUTES)
                    access_token == create_access_token([sub |-> Get(user).email],
                                                        Some(access_token_expires), now)
                IN  /\ req' = [req EXCEPT ![r] =
                           Respond([q EXCEPT !.ran = TRUE], 200, None,
                                   Some([access_token |-> access_token, token_type |-> "bearer"]),
                                   FALSE, now)]
                    /\ issued' = issued \cup {[token |-> access_token, iat |-> now,
                                               email |-> q.email]}
    /\ get_db_exit
    /\ UNCHANGED <<users, books, now, phase, call, written>>

\* ------------------------------------------------ get_current_user (auth.py)
Unauthorized_bare(q, detail, t) == Respond(q, 401, detail, Nothing, FALSE, t)
Unauthorized(q, detail, t) == Respond(q, 401, detail, Nothing, TRUE, t)

\* oauth2_scheme extracts the bearer token (401 when the header is missing), then
\* jwt.decode and payload.get("sub"); on success get_db() is entered.
authenticate(r) ==
    /\ req[r].kind \in BookRoutes /\ req[r].pc = "authenticate"
    /\ LET q == req[r]
           payload == IF IsSome(q.token) THEN jwt_decode(Get(q.token), SECRET_KEY, now)
                      ELSE Nothing
       IN  IF ~IsSome(q.token)
           THEN /\ req' = [req EXCEPT ![r] = Unauthorized(q, "Not authenticated", now)]
                /\ UNCHANGED is_connected
           ELSE IF ~IsSome(payload) \/ Get(payload).sub = None
           THEN /\ req' = [req EXCEPT ![r] =
                       Unauthorized(q, "Could not validate credentials", now)]
                /\ UNCHANGED is_connected
           ELSE /\ req' = [req EXCEPT ![r] =
                       [q EXCEPT !.pc = "auth_select", !.sub = Get(payload).sub]]
                /\ get_db_enter
    /\ UNCHANGED <<users, books, now, phase, issued, call, written>>

\* SELECT the subject's user row; absent raises 401; the get_db scope is left.
auth_select(r) ==
    /\ req[r].kind \in BookRoutes /\ req[r].pc = "auth_select"
    /\ LET q == Queried(req[r], "auth")
           user == select_user(q.sub)
       IN  IF ~IsSome(user)
           THEN req' = [req EXCEPT ![r] =
                    Unauthorized(q, "Could not validate credentials", now)]
           ELSE req' = [req EXCEPT ![r] = [q EXCEPT !.pc = "handler", !.user = user]]
    /\ get_db_exit
    /\ UNCHANGED <<users, books, now, phase, issued, call, written>>

\* ------------------------------------------------- book handlers (main.py)
NotFound(q, t) ==
    Respond(Logged(q, <<"WARNING", "Book not found", q.book_id>>),
            404, "Book not found", Nothing, FALSE, t)
\* The handler body starts: its logger.info names the authenticated user.
Entered(q, what) ==
    [Logged(q, <<"INFO", what, Get(q.user).email>>) EXCEPT !.ran = TRUE]

get_books(r) ==
    /\ req[r].kind = "get_books" /\ req[r].pc = "handler"
    /\ req' = [req EXCEPT ![r] =
           Respond(Queried(Entered(@, "GET /books"), "main"), 200, None, Some(books), FALSE, now)]
    /\ UNCHANGED <<users, books, now, is_connected, phase, issued, call, written>>

get_book(r) ==
    /\ req[r].kind = "get_book" /\ req[r].pc = "handler"
    /\ LET q == Queried(Entered(req[r], "GET /books/{book_id}"), "main")
           book == select_book(q.book_id)
       IN  req' = [req EXCEPT ![r] =
               IF ~IsSome(book) THEN NotFound(q, now)
               ELSE Respond(q, 200, None, book, FALSE, now)]
    /\ UNCHANGED <<users, books, now, is_connected, phase, issued, call, written>>

BookRow(id, b) == [id |-> id, title |-> b.title, author |-> b.author, price |-> b.price]

\* INSERT ... RETURNING *: the store assigns the id.
create_book(r) ==
    /\ req[r].kind = "create_book" /\ req[r].pc = "handler"
    /\ LET q == Queried(Entered(req[r], "POST /books"), "main")
           created_book == BookRow(next_id(books), Get(q.book))
       IN  /\ books' = books \cup {created_book}
           /\ req' = [req EXCEPT ![r] =
                  Respond(q, 201, None, Some(created_book), FALSE, now)]
           /\ written' = [written EXCEPT ![created_book.id] = Wrote(Get(q.book))]
    /\ UNCHANGED <<users, now, is_connected, phase, issued, call>>

\* As update_book, the UPDATE without its WHERE clause.
update_book_all(r) ==
    /\ req[r].kind = "update_book" /\ req[r].pc = "handler"
    /\ LET q == Queried(Entered(req[r], "PUT /books/{book_id}"), "main")
           updated_book == BookRow(q.book_id, Get(q.book))
       IN  IF \E b \in books : b.id = q.book_id
           THEN /\ books' = { BookRow(b.id, Get(q.book)) : b \in books }
                /\ req' = [req EXCEPT ![r] =
                       Respond(q, 200, None, Some(updated_book), FALSE, now)]
                /\ written' = [written EXCEPT ![q.book_id] = Wrote(Get(q.book))]
           ELSE /\ req' = [req EXCEPT ![r] = NotFound(q, now)]
                /\ UNCHANGED <<books, written>>
    /\ UNCHANGED <<users, now, is_connected, phase, issued, call>>

\* As update_book, inserting the row when no row has the id.
update_book_upsert(r) ==
    /\ req[r].kind = "update_book" /\ req[r].pc = "handler"
    /\ LET q == Queried(Entered(req[r], "PUT /books/{book_id}"), "main")
           updated_book == BookRow(q.book_id, Get(q.book))
       IN  /\ books' = { b \in books : b.id # q.book_id } \cup {updated_book}
           /\ req' = [req EXCEPT ![r] =
                  Respond(q, 200, None, Some(updated_book), FALSE, now)]
           /\ written' = [written EXCEPT ![q.book_id] = Wrote(Get(q.book))]
    /\ UNCHANGED <<users, now, is_connected, phase, issued, call>>

\* UPDATE ... WHERE id = :id RETURNING *: no row returned when no row has the id.
update_book(r) ==
    /\ req[r].kind = "update_book" /\ req[r].pc = "handler"
    /\ LET q == Queried(Entered(req[r], "PUT /books/{book_id}"), "main")
           updated_book == BookRow(q.book_id, Get(q.book))
       IN  IF \E b \in books : b.id = q.book_id
           THEN /\ books' = { b \in books : b.id # q.book_id } \cup {updated_book}
                /\ req' = [req EXCEPT ![r] =
                       Respond(q, 200, None, Some(updated_book), FALSE, now)]
                /\ written' = [written EXCEPT ![q.book_id] = Wrote(Get(q.book))]
           ELSE /\ req' = [req EXCEPT ![r] = NotFound(q, now)]
                /\ UNCHANGED <<books, written>>
    /\ UNCHANGED <<users, now, is_connected, phase, issued, call>>

\* DELETE ... WHERE id = :id RETURNING *.
delete_book(r) ==
    /\ req[r].kind = "delete_book" /\ req[r].pc = "handler"
    /\ LET q == Queried(Entered(req[r], "DELETE /books/{book_id}"), "main")
       IN  IF \E b \in books : b.id = q.book_id
           THEN /\ books' = { b \in books : b.id # q.book_id }
                /\ req' = [req EXCEPT ![r] =
                       Respond(q, 200, None,
                               Some([message |-> "Book deleted successfully"]), FALSE, now)]
                /\ written' = [written EXCEPT ![q.book_id] = Deleted]
           ELSE /\ req' = [req EXCEPT ![r] = NotFound(q, now)]
                /\ UNCHANGED <<books, written>>
    /\ UNCHANGED <<users, now, is_connected, phase, issued, call>>

\* ------------------------------------------------------- specifications
Slots == DOMAIN req

Handle ==
    \/ \E r \in Slots : register_enter(r)
    \/ \E r \in Slots : register_select(r)
    \/ \E r \in Slots : register_insert(r)
    \/ \E r \in Slots : login_enter(r)
    \/ \E r \in Slots : login_select(r)
    \/ \E r \in Slots : authenticate(r)
    \/ \E r \in Slots : auth_select(r)
    \/ \E r \in Slots : get_books(r)
    \/ \E r \in Slots : get_book(r)
    \/ \E r \in Slots : create_book(r)
    \/ \E r \in Slots : update_book(r)
    \/ \E r \in Slots : delete_book(r)

\* The authentication flow: every email, password and token; one book id.
Next ==
    \/ startup
    \/ shutdown
    \/ Tick
    \/ \E r \in Slots : ReceiveRegister(r, Emails, {"password1"})
    \/ \E r \in Slots : ReceiveLogin(r, Emails, Passwords)
    \/ \E r \in Slots :
          ReceiveBookRequest(r, AnyToken, {1}, {CHOOSE b \in BookBodies : TRUE})
    \/ Handle

Spec == Init /\ [][Next]_vars

\* The book table: one account, the tokens login returned, every id and body.
NextBooks ==
    \/ startup
    \/ shutdown
    \/ \E r \in Slots : ReceiveRegister(r, {"a@x.com"}, {"password1"})
    \/ \E r \in Slots : ReceiveLogin(r, {"a@x.com"}, {"password1"})
    \/ \E r \in Slots : ReceiveBookRequest(r, HeldToken, 1 .. MaxBookId, BookBodies)
    \/ Handle

SpecBooks == Init /\ [][NextBooks]_vars

\* create_access_token on its own: any subject and any expires_delta (None, zero,
\* half a second, 15, 30 and 60 minutes), at the instant the clock shows.
Deltas == {Nothing, Some(0), Some(1)} \cup { Some(Minutes(m)) : m \in {15, 30, 60} }

IssueToken ==
    /\ \E s \in Emails, d \in Deltas :
        call' = Some([data |-> [sub |-> s], expires_delta |-> d, at |-> now,
                      token |-> create_access_token([sub |-> s], d, now)])
    /\ UNCHANGED <<users, books, now, is_connected, phase, req, issued, written>>

NextIssue == Tick \/ IssueToken

SpecIssue == Init /\ [][NextIssue]_vars

\* Two requests at a time: the event loop interleaves their awaited steps. The
\* clock stands still; one password, the tokens login returned, one book id.
InitConc ==
    /\ users = {} /\ books = {} /\ now = 0
    /\ is_connected = [main |-> FALSE, auth |-> FALSE, db |-> FALSE]
    /\ phase = "init"
    /\ req = [r \in {1, 2} |-> Idle]
    /\ issued = {}
    /\ call = Nothing
    /\ written = [id \in 1 .. MaxBookId |-> NeverWritten]

NextConc ==
    \/ startup
    \/ shutdown
    \/ \E r \in Slots : ReceiveRegister(r, Emails, {"password1"})
    \/ \E r \in Slots : ReceiveLogin(r, {"a@x.com"}, {"password1"})
    \/ \E r \in Slots :
          ReceiveBookRequest(r, HeldToken, {1}, {CHOOSE b \in BookBodies : TRUE})
    \/ Handle

SpecConc == InitConc /\ [][NextConc]_vars

\* ================================================================ claims
SecondOf(t) == t \div TicksPerSecond
TTL == Minutes(ACCESS_TOKEN_EXPIRE_MINUTES)
\* Request r takes a step; request r is answered.
StepOf(r) == req'[r] # req[r]
AtAuth(r) == req[r].kind \in BookRoutes /\ req[r].pc = "authenticate"
AtSelect(r) == req[r].kind \in BookRoutes /\ req[r].pc = "auth_select"
AtHandler(r) == req[r].kind \in BookRoutes /\ req[r].pc = "handler"
Registered(email) == \E u \in users : u.email = email
\* Answered 401 with the Bearer challenge, the handler body not run, the book
\* table as it was.
Rejected(r) ==
    /\ req'[r].pc = "done" /\ req'[r].status = 401 /\ req'[r].challenge
    /\ ~req'[r].ran
    /\ books' = books

\* C1 as stated: a book request with no token, a token not signed with the server
\* secret, or a token whose expiry instant is before the current instant is
\* answered 401 with the challenge, its handler not run, the book table unchanged.
C1_Original ==
    [][\A r \in DOMAIN req :
        ( /\ AtAuth(r) /\ StepOf(r)
          /\ \/ ~IsSome(req[r].token)
             \/ Get(req[r].token).key # SECRET_KEY
             \/ Get(req[r].token).exp * TicksPerSecond < now )
        => Rejected(r)]_vars

\* C1, amended: a book request (any of the five routes) with no token, a token not
\* signed with the server secret, or a token whose expiry is earlier than the
\* current whole second is answered 401 with the challenge, its handler body is
\* not run and the book table is unchanged.
C1_Unauthorized ==
    [][\A r \in DOMAIN req :
        ( /\ AtAuth(r) /\ StepOf(r)
          /\ \/ ~IsSome(req[r].token)
             \/ Get(req[r].token).key # SECRET_KEY
             \/ Get(req[r].token).exp < SecondOf(now) )
        => Rejected(r)]_vars

\* A DELETE presenting a token login returned, by now expired, was answered 401.
C1_Witness ==
    \E r \in DOMAIN req, i \in issued :
        /\ req[r].pc = "done" /\ req[r].kind = "delete_book"
        /\ req[r].token = Some(i.token)
        /\ req[r].status = 401 /\ ~req[r].ran /\ books # {}

\* C2: a login with the email and password of a registered user returns a bearer
\* token; a book request presenting that token before its expiry passes
\* jwt.decode with the user's email as subject, then resolves to the user record
\* of that email, then runs the route handler (never 401 or 500).
C2_TokenGrantsAccess ==
    [][\A r \in DOMAIN req : StepOf(r) =>
        /\ ( /\ req[r].kind = "login" /\ req[r].pc = "select"
             /\ \E u \in users : /\ u.email = req[r].email
                                 /\ pwd_verify(req[r].password, u.hashed_password) )
           => /\ req'[r].status = 200
              /\ Get(req'[r].body).token_type = "bearer"
              /\ \E i \in issued' : /\ i.token = Get(req'[r].body).access_token
                                    /\ i.email = req[r].email /\ i.iat = now
        /\ \A i \in issued : req[r].token = Some(i.token) =>
              /\ (AtAuth(r) /\ now < i.iat + TTL)
                    => req'[r].pc = "auth_select" /\ req'[r].sub = i.email
              /\ AtSelect(r)
                    => /\ req'[r].pc = "handler"
                       /\ IsSome(req'[r].user)
                       /\ Get(req'[r].user) \in users
                       /\ Get(req'[r].user).email = i.email
              /\ AtHandler(r)
                    => req'[r].ran /\ req'[r].status \in {200, 201, 404}]_vars

\* A book request presenting a login's token was served by its handler.
C2_Witness ==
    \E r \in DOMAIN req, i \in issued :
        /\ req[r].pc = "done" /\ req[r].kind = "create_book"
        /\ req[r].token = Some(i.token) /\ req[r].status = 201 /\ req[r].ran
        /\ Get(req[r].user).email = i.email

\* A token login issued at instant i.iat validates (get_current_user returns the
\* user) whenever it is presented before i.iat + TTL.
C3_ValidBefore(r, i) ==
    /\ (AtAuth(r) /\ now < i.iat + TTL) => req'[r].pc = "auth_select"
    /\ AtSelect(r) => req'[r].pc = "handler" /\ IsSome(req'[r].user)

\* C3 as stated: a token issued at t with lifetime d validates before t + d,
\* whatever happened in between, and is rejected at every instant after t + d.
C3_Original ==
    [][\A r \in DOMAIN req : \A i \in issued :
        (StepOf(r) /\ req[r].token = Some(i.token)) =>
            /\ C3_ValidBefore(r, i)
            /\ (AtAuth(r) /\ now > i.iat + TTL) => Rejected(r)]_vars

\* C3, amended: a token issued at t with lifetime d validates at every instant
\* before t + d, whatever happened in between, and is rejected as Unauthorized at
\* every instant whose whole second is later than the whole second of t + d.
C3_TokenLifetime ==
    [][\A r \in DOMAIN req : \A i \in issued :
        (StepOf(r) /\ req[r].token = Some(i.token)) =>
            /\ C3_ValidBefore(r, i)
            /\ (AtAuth(r) /\ SecondOf(now) > SecondOf(i.iat + TTL)) => Rejected(r)]_vars

\* An expired token was rejected although the same user holds a later token.
C3_Witness ==
    \E r \in DOMAIN req, i \in issued, j \in issued :
        /\ i.email = j.email /\ i.iat < j.iat
        /\ req[r].pc = "done" /\ req[r].kind \in BookRoutes
        /\ req[r].token = Some(i.token) /\ req[r].status = 401
        /\ now < j.iat + TTL

\* C4: a register request for an email no user record has succeeds: it inserts
\* exactly one record, with that email, and answers 200 with {id, email} only; a
\* register request for an email a user record has is answered 400 'Email already
\* registered' and leaves the user table unchanged.
C4_Register ==
    [][\A r \in DOMAIN req : (StepOf(r) /\ req[r].kind = "register_user") =>
        /\ (req[r].pc = "select" /\ ~Registered(req[r].email))
              => req'[r].pc = "insert" /\ users' = users
        /\ (req[r].pc = "insert" /\ ~Registered(req[r].email))
              => /\ req'[r].pc = "done" /\ req'[r].status = 200
                 /\ \E row \in users' :
                       /\ row \notin users /\ users' = users \cup {row}
                       /\ row.email = req[r].email
                       /\ pwd_verify(req[r].password, row.hashed_password)
                       /\ req'[r].body = Some([id |-> row.id, email |-> row.email])
        /\ (req[r].pc = "select" /\ Registered(req[r].email))
              => /\ req'[r].pc = "done" /\ req'[r].status = 400
                 /\ req'[r].detail = "Email already registered"
                 /\ users' = users]_vars

\* The second registration of an email was answered 400.
C4_Witness ==
    \E r \in DOMAIN req :
        /\ req[r].pc = "done" /\ req[r].kind = "register_user"
        /\ req[r].status = 400 /\ Registered(req[r].email)
        /\ Cardinality(users) = 2

\* C5: a login for an email with no user record and a login for a registered email
\* with a wrong password get the same response (400 'Incorrect email or
\* password', no body), and neither issues a token nor changes the store.
C5_GenericLoginError ==
    [][\A r \in DOMAIN req :
        ( /\ StepOf(r) /\ req[r].kind = "login" /\ req[r].pc = "select"
          /\ \/ ~Registered(req[r].email)
             \/ \E u \in users : /\ u.email = req[r].email
                                 /\ u.hashed_password.digest_of # req[r].password )
        => /\ <<req'[r].pc, req'[r].status, req'[r].detail, req'[r].body, req'[r].challenge>>
                = <<"done", 400, "Incorrect email or password", Nothing, FALSE>>
           /\ UNCHANGED <<users, books, issued>>]_vars

\* A login with a wrong password for a registered email was answered 400.
C5_Witness ==
    \E r \in DOMAIN req, u \in users :
        /\ req[r].pc = "done" /\ req[r].kind = "login" /\ req[r].status = 400
        /\ u.email = req[r].email /\ u.hashed_password.digest_of # req[r].password

\* The book table holds, for every id, exactly what the last answered write left:
\* one row with the written fields, or no row.
BooksAsWritten ==
    \A id \in 1 .. MaxBookId :
        { b \in books : b.id = id } =
            IF written[id].last = "put"
            THEN {BookRow(id, Get(written[id].fields))}
            ELSE {}
OtherRows(table, id) == { b \in table : b.id # id }

\* C6: GET /books/{id} reflects the latest answered write to the id: the fields a
\* create (answered with that id) or a later update put there, or NotFound after
\* a delete; a create is answered with a fresh id and the fields sent; an update
\* or delete changes no row of another id.
C6_ReadLatestWrite ==
    [][/\ BooksAsWritten'
       /\ \A r \in DOMAIN req : (StepOf(r) /\ AtHandler(r)) =>
            /\ req[r].kind = "get_book" =>
                 /\ books' = books
                 /\ IF written[req[r].book_id].last = "put"
                    THEN /\ req'[r].status = 200
                         /\ req'[r].body =
                              Some(BookRow(req[r].book_id,
                                           Get(written[req[r].book_id].fields)))
                    ELSE req'[r].status = 404 /\ req'[r].detail = "Book not found"
            /\ req[r].kind = "create_book" =>
                 /\ req'[r].status = 201
                 /\ Get(req'[r].body).id \notin { b.id : b \in books }
                 /\ req'[r].body = Some(BookRow(Get(req'[r].body).id, Get(req[r].book)))
                 /\ books' = books \cup {Get(req'[r].body)}
            /\ (req[r].kind = "update_book" /\ req'[r].status = 200) =>
                 /\ req'[r].body = Some(BookRow(req[r].book_id, Get(req[r].book)))
                 /\ OtherRows(books', req[r].book_id) = OtherRows(books, req[r].book_id)
            /\ (req[r].kind = "delete_book" /\ req'[r].status = 200) =>
                 OtherRows(books', req[r].book_id) = OtherRows(books, req[r].book_id)]_vars

\* A GET of an id that was created and then deleted was answered NotFound, while
\* another book, updated since its creation, is still in the table.
C6_Witness ==
    \E r \in DOMAIN req :
        /\ req[r].pc = "done" /\ req[r].kind = "get_book" /\ req[r].status = 404
        /\ written[req[r].book_id].last = "delete"
        /\ \E b \in books : b.id # req[r].book_id

\* C7: an authenticated get, update or delete of an id no book row carries is
\* answered 404 'Book not found' and leaves the book table unchanged (an update
\* creates no row, a second delete fails).
C7_NotFound ==
    [][\A r \in DOMAIN req :
        ( /\ StepOf(r) /\ AtHandler(r)
          /\ req[r].kind \in {"get_book", "update_book", "delete_book"}
          /\ ~\E b \in books : b.id = req[r].book_id )
        => /\ req'[r].pc = "done" /\ req'[r].status = 404
           /\ req'[r].detail = "Book not found"
           /\ books' = books]_vars

\* The second DELETE of an id was answered NotFound.
C7_Witness ==
    \E r \in DOMAIN req :
        /\ req[r].pc = "done" /\ req[r].kind = "delete_book" /\ req[r].status = 404
        /\ written[req[r].book_id].last = "delete"

\* C8: a token signed with the server secret and not expired whose subject is
\* missing, or is the email of no user record, is answered 401 'Could not
\* validate credentials' with the Bearer challenge, as a token with a bad
\* signature is.
C8_UnknownSubject ==
    [][\A r \in DOMAIN req :
        ( /\ StepOf(r) /\ req[r].kind \in BookRoutes /\ IsSome(req[r].token)
          /\ \/ /\ req[r].pc = "authenticate"
                /\ Get(req[r].token).key = SECRET_KEY
                /\ Get(req[r].token).exp >= SecondOf(now)
                /\ Get(req[r].token).sub = None
             \/ /\ req[r].pc = "auth_select"
                /\ ~Registered(Get(req[r].token).sub)
             \/ /\ req[r].pc = "authenticate"
                /\ Get(req[r].token).key # SECRET_KEY )
        => /\ Rejected(r)
           /\ req'[r].detail = "Could not validate credentials"
           /\ req'[r].body = Nothing]_vars

\* A correctly signed, unexpired token for an email nobody registered was
\* answered 401 after the lookup.
C8_Witness ==
    \E r \in DOMAIN req :
        /\ req[r].pc = "done" /\ req[r].kind \in BookRoutes
        /\ IsSome(req[r].token)
        /\ Get(req[r].token).key = SECRET_KEY
        /\ Get(req[r].token).sub = "zed@x.com"
        /\ req[r].sub = "zed@x.com"
        /\ req[r].status = 401 /\ req[r].challenge

\* C9 as stated: create_access_token embeds the subject and the expiry now + ttl
\* (in whole seconds) for every ttl given, zero included, and now + 30 minutes
\* when none is given.
C9_Original ==
    IsSome(call) =>
        LET c == Get(call)
            ttl == IF IsSome(c.expires_delta) THEN Get(c.expires_delta)
                   ELSE Minutes(ACCESS_TOKEN_EXPIRE_MINUTES)
        IN  /\ c.token.sub = c.data.sub
            /\ c.token.exp = SecondOf(c.at + ttl)

\* C10 as stated: a login's token carries the stored email of the user and an
\* expiry exactly 30 minutes after the instant of issue.
C10_Original ==
    \A i \in issued :
        /\ i.token.sub = i.email /\ Registered(i.token.sub)
        /\ i.token.exp * TicksPerSecond = i.iat + Minutes(ACCESS_TOKEN_EXPIRE_MINUTES)

\* C10, amended: every token a successful login returns has as subject the stored
\* email of the user who logged in and as expiry the whole second of the instant
\* 30 minutes after the issue.
C10_LoginToken ==
    \A i \in issued :
        /\ i.token.sub = i.email /\ Registered(i.token.sub)
        /\ i.token.exp = SecondOf(i.iat + Minutes(ACCESS_TOKEN_EXPIRE_MINUTES))

\* A login at an instant that is no whole second returned a token.
C10_Witness ==
    \E r \in DOMAIN req, i \in issued :
        /\ req[r].pc = "done" /\ req[r].kind = "login" /\ req[r].status = 200
        /\ Get(req[r].body).access_token = i.token
        /\ i.iat % TicksPerSecond # 0

\* ------------------------------------------------------ concurrent requests
RegisterOf(r) == req[r].kind = "register_user"
\* Request r has passed the existence check of register_user and awaits its INSERT.
AtInsert(r) == RegisterOf(r) /\ req[r].pc = "insert"
Answered(r, status) == req[r].pc = "done" /\ req[r].status = status

\* C11: in every reachable state, two concurrent requests interleaving at each
\* awaited step, no two user records share an email; this holds also when two
\* register requests for one email are both between the check and the INSERT.
C11_UniqueEmail == \A u, v \in users : u.email = v.email => u = v

\* Two register requests for one email, both past the check: one inserted the
\* row, the INSERT of the other was refused by the store.
C11_Witness ==
    \E r, s \in Slots :
        /\ r # s /\ RegisterOf(r) /\ RegisterOf(s) /\ req[r].email = req[s].email
        /\ Answered(r, 200) /\ req[s].pc = "done" /\ ~req[s].ran
        /\ Len(req[s].queries) = 2
        /\ Cardinality({ u \in users : u.email = req[s].email }) = 1

\* C12 as stated: every register request with a valid body is answered with the
\* created user (id, email) or with DuplicateEmail (400), under every
\* interleaving, never with an error of the store nothing handles.
C12_Original ==
    \A r \in Slots :
        RegisterOf(r) /\ req[r].pc = "done"
            => \/ Answered(r, 200) /\ IsSome(req[r].body)
               \/ Answered(r, 400) /\ req[r].detail = "Email already registered"

Ids(table) == { row.id : row \in table }
UniqueIds(table) == \A a, b \in table : a.id = b.id => a = b
\* Request r is answered with a created row: the step of create_book that
\* returns 201, the step of register_user that returns 200.
Creates(r, kind, status) ==
    /\ req[r].kind = kind /\ req[r].pc # "done"
    /\ req'[r].pc = "done" /\ req'[r].status = status

\* C13: no two book rows share an id and no two user rows share an id; each
\* successful create_book and register_user adds one row whose id is a positive
\* integer no row of the table carries at that moment, and the request supplies
\* no id (no path id, no id field in the body).
C13_FreshIds ==
    /\ [](UniqueIds(books) /\ UniqueIds(users))
    /\ [][\A r \in Slots :
            /\ Creates(r, "create_book", 201)
                 => LET row == Get(req'[r].body)
                    IN  /\ row.id \in Nat \ {0} /\ row.id \notin Ids(books)
                        /\ row \notin books /\ books' = books \cup {row}
                        /\ req[r].book_id = 0 /\ "id" \notin DOMAIN Get(req[r].book)
            /\ Creates(r, "register_user", 200)
                 => LET out == Get(req'[r].body)
                    IN  /\ out.id \in Nat \ {0} /\ out.id \notin Ids(users)
                        /\ \E row \in users' \ users :
                              row.id = out.id /\ users' = users \cup {row}]_vars

\* Both tables hold two rows, the second of each inserted by a request that ran
\* while another request was in flight.
C13_Witness ==
    /\ Cardinality(books) = 2 /\ Cardinality(users) = 2
    /\ \E r, s \in Slots : r # s /\ Answered(r, 201) /\ Answered(s, 201)
                           /\ Get(req[r].body).id # Get(req[s].body).id

\* C14: user records are immutable and never deleted: every step keeps every
\* user row as it is, and the only step that changes the user table is the
\* INSERT of a register request answered 200, which adds one row.
C14_UsersFrame ==
    [][/\ users \subseteq users'
       /\ users' # users
            => /\ Cardinality(users' \ users) = 1
               /\ \E r \in Slots : AtInsert(r) /\ req'[r].pc = "done"
                                   /\ req'[r].status = 200
                                   /\ \A s \in Slots \ {r} : req'[s] = req[s]]_vars

\* A user row is stored; since then a login, a refused register and a book
\* deletion have been answered.
C14_Witness ==
    /\ users # {} /\ issued # {}
    /\ \E r, s \in Slots :
        /\ RegisterOf(r) /\ req[r].pc = "done" /\ req[r].status \in {400, 500}
        /\ req[s].kind = "delete_book" /\ Answered(s, 200)

\* The strings one can read off a stored password value: under bcrypt the scheme
\* and the salt, the digest giving nothing back.
Readable(hashed) ==
    {hashed.scheme, hashed.salt}
        \cup (IF hashed.scheme = "bcrypt" THEN {} ELSE {hashed.digest_of})
\* The strings of a log line (the third field of "Book not found" is the book id;
\* an access line carries method, path and status).
LineText(line) ==
    IF Len(line) = 3 /\ line[2] # "Book not found"
    THEN {line[1], line[2], line[3]} ELSE {line[1], line[2]}

\* C15: no user record and no log line holds the plaintext password of a
\* register or login request: the record has id, email and the bcrypt hash only,
\* and the answer to a register has id and email only, never the hash.
C15_NoPlaintext ==
    \A p \in Passwords :
        /\ \A u \in users :
              /\ DOMAIN u = {"id", "email", "hashed_password"}
              /\ u.email # p /\ p \notin Readable(u.hashed_password)
        /\ \A r \in Slots :
              /\ \A k \in 1 .. Len(req[r].log) : p \notin LineText(req[r].log[k])
              /\ RegisterOf(r) /\ Answered(r, 200)
                    => DOMAIN Get(req[r].body) = {"id", "email"}

\* A register was answered with the created user, and a login was refused and
\* its attempt logged.
C15_Witness ==
    \E r, s \in Slots :
        /\ RegisterOf(r) /\ Answered(r, 200) /\ req[r].password \in Passwords
        /\ \E u \in users : u.email = req[r].email
        /\ req[s].kind = "login" /\ Answered(s, 400) /\ Len(req[s].log) = 3

\* The access records of request r: the lines log_requests wrote for it.
AccessRecords(r) ==
    { k \in 1 .. Len(req[r].log) :
        Len(req[r].log[k]) = 4 /\ req[r].log[k][2] = Method(req[r].kind) }

\* C16 as stated, in its finite form: once a request is answered, whatever the
\* outcome (success, 400/401/404, or an exception nothing handles and the 500
\* that follows), the middleware has written one record for it with the method,
\* the path and the status of the answer.
C16_Original ==
    \A r \in Slots :
        req[r].pc = "done"
            => /\ Cardinality(AccessRecords(r)) = 1
               /\ req[r].log[Len(req[r].log)] = AccessLog(req[r], req[r].status)

\* Request r is inside `async with get_db()`: between its connect and its own
\* disconnect.
InScope(r) == req[r].pc \in {"select", "insert", "auth_select"}

\* C17: every request that enters the get_db scope (register, login, token
\* validation) releases it: the step that leaves the scope, by return or by a
\* raise, disconnects the handle, and whenever no request is inside a scope the
\* scoped handle is disconnected.
C17_Released ==
    /\ []((\A r \in Slots : ~InScope(r)) => ~is_connected.db)
    /\ [][\A r \in Slots : InScope(r) /\ ~InScope(r)' => ~is_connected'.db]_vars

\* Two requests have left their scopes, one by return and one by the exception
\* of its INSERT, and no request is inside a scope.
C17_Witness ==
    /\ ~is_connected.db /\ \A r \in Slots : ~InScope(r)
    /\ \E r, s \in Slots :
        /\ RegisterOf(r) /\ Answered(r, 500)
        /\ req[s].pc = "done" /\ req[s].status \in {200, 400}
        /\ Len(req[s].queries) >= 1

\* C18 as stated: the scoped handle of a request is independent of the other
\* requests: while a request is between its get_db connect and its own
\* disconnect, the handle is connected, under every interleaving.
C18_Original == \A r \in Slots : InScope(r) => is_connected.db

\* C19 as stated: every store query of a request is issued on a handle that is
\* connected at that moment (the startup handle of main.py or the handle get_db
\* yields), never on a handle that was never connected.
C19_Original ==
    \A r \in Slots : \A k \in 1 .. Len(req[r].queries) :
        /\ req[r].queries[k].on \in {"main", "db"}
        /\ req[r].queries[k].connected

====
